---------------------------- MODULE Spec2Model ----------------------------
(***************************************************************************)
(* A model of the strkey codec (src/src/ser.rs, src/src/de.rs,             *)
(* src/src/error.rs).                                                      *)
(*                                                                         *)
(* Representation.  A byte is a number in 0..255 and a byte string is a    *)
(* sequence of bytes.  A Rust str is a sequence of code points; as_bytes   *)
(* and from_utf8 convert between the two.  A serde value is a record       *)
(* [k |-> kind, v |-> payload]; a Result is [tag |-> "Ok"/"Err", val].     *)
(* Integers are modelled at the widths that fit TLC's 32-bit               *)
(* integers: u8, i8, u16, i16, i32, and f32 through its bit pattern read   *)
(* as an i32 (which is what serialize_f32 computes with).                  *)
(***************************************************************************)
EXTENDS Integers, Sequences, FiniteSets, TLC

---------------------------------------------------------------------------
(* Values, errors and results.  These records are tagged unions: the tag    *)
(* (k, tag) is named first so that TLC compares it first; the payload       *)
(* differs in type from one tag to the next.                                *)

Val(k, v) == [k |-> k, v |-> v]
\* let x = ...; F(x)
Bind(x, F(_)) == F(x)
Ok(x) == [tag |-> "Ok", val |-> x]
\* An Error: its variant k, what its message is made from (m) and the text
\* it carries (v).
Err(k, m, v) == [tag |-> "Err", val |-> [k |-> k, m |-> m, v |-> v]]
UnsupportedType == Err("UnsupportedType", "", <<>>)
Syntax == Err("Syntax", "", <<>>)
IsErr(r, k) == r.tag = "Err" /\ r.val.k = k

NoValue == Val("none", <<>>)
NoResult == [tag |-> "None", val |-> NoValue]

VARIABLES
    value,      \* the value handed to the encoder (NoValue when none)
    ser,        \* the Serializer: output, deliminator, first_part_written, buffer
    serRes,     \* result of the last serialize call
    source,     \* the bytes handed to the decoder
    shape,      \* the target shape handed to the decoder
    de,         \* the Deserializer with its ComponentRead
    decRes,     \* result of the last deserialize call
    endRes,     \* result of the last end() call
    pc,         \* where the caller is
    other,      \* second value of an ordering comparison
    keys        \* the two encodings of an ordering comparison

vars == <<value, ser, serRes, source, shape, de, decRes, endRes, pc, other,
          keys>>

---------------------------------------------------------------------------
(* Bits and bytes: the primitive integer operations of the target.          *)

RECURSIVE Pow(_, _)
Pow(b, n) == IF n = 0 THEN 1 ELSE b * Pow(b, n - 1)

\* a ^ b on n-bit naturals
RECURSIVE BitXor(_, _, _)
BitXor(a, b, n) ==
    IF n = 0 THEN 0
    ELSE (((a % 2) + (b % 2)) % 2) + 2 * BitXor(a \div 2, b \div 2, n - 1)

\* a | b on n-bit naturals
RECURSIVE BitOr(_, _, _)
BitOr(a, b, n) ==
    IF n = 0 THEN 0
    ELSE (IF (a % 2) + (b % 2) > 0 THEN 1 ELSE 0) + 2 * BitOr(a \div 2, b \div 2, n - 1)

\* iN::to_be_bytes / uN::to_be_bytes: the w bytes of v's two's complement
\* representation, most significant first.
to_be_bytes(v, w) == [i \in 1..w |-> (v \div Pow(256, w - i)) % 256]

\* uN::from_be_bytes
RECURSIVE from_be_bytes_u(_)
from_be_bytes_u(b) ==
    IF Len(b) = 0 THEN 0
    ELSE b[1] * Pow(256, Len(b) - 1) + from_be_bytes_u(Tail(b))

\* iN::from_be_bytes
from_be_bytes_i(b) ==
    (b[1] - (IF b[1] >= 128 THEN 256 ELSE 0)) * Pow(256, Len(b) - 1)
        + from_be_bytes_u(Tail(b))

\* a ^ b on signed w-byte integers
XorI(a, b, w) ==
    LET x == to_be_bytes(a, w)
        y == to_be_bytes(b, w)
    IN  from_be_bytes_i([i \in 1..w |-> BitXor(x[i], y[i], 8)])

\* a | b on signed w-byte integers
OrI(a, b, w) ==
    LET x == to_be_bytes(a, w)
        y == to_be_bytes(b, w)
    IN  from_be_bytes_i([i \in 1..w |-> BitOr(x[i], y[i], 8)])

\* a >> n on a signed integer: the arithmetic shift
RECURSIVE ShrI(_, _)
ShrI(a, n) == IF n = 0 THEN a ELSE ShrI(a \div 2, n - 1)

I8_MIN == -128
I16_MIN == -32768
I32_MIN == -2147483647 - 1
I32_MAX == -(I32_MIN + 1)

---------------------------------------------------------------------------
(* Text: UTF-8 and the hex crate.                                           *)

\* char::encode_utf8
encode_utf8(c) ==
    IF c < 128 THEN <<c>>
    ELSE IF c < 2048 THEN <<192 + (c \div 64), 128 + (c % 64)>>
    ELSE IF c < 65536 THEN
        <<224 + (c \div 4096), 128 + ((c \div 64) % 64), 128 + (c % 64)>>
    ELSE <<240 + (c \div 262144), 128 + ((c \div 4096) % 64),
           128 + ((c \div 64) % 64), 128 + (c % 64)>>

\* str::as_bytes
RECURSIVE as_bytes(_)
as_bytes(s) ==
    IF Len(s) = 0 THEN <<>> ELSE encode_utf8(s[1]) \o as_bytes(Tail(s))

IsCont(b) == b >= 128 /\ b <= 191

\* The length of the well-formed UTF-8 sequence that starts b, 0 when there
\* is none.
Utf8SeqLen(b) ==
    IF b[1] < 128 THEN 1
    ELSE IF b[1] >= 194 /\ b[1] <= 223 /\ Len(b) >= 2 /\ IsCont(b[2]) THEN 2
    ELSE IF /\ b[1] >= 224 /\ b[1] <= 239 /\ Len(b) >= 3
            /\ IsCont(b[2]) /\ IsCont(b[3])
            /\ (b[1] = 224 => b[2] >= 160)
            /\ (b[1] = 237 => b[2] <= 159) THEN 3
    ELSE IF /\ b[1] >= 240 /\ b[1] <= 244 /\ Len(b) >= 4
            /\ IsCont(b[2]) /\ IsCont(b[3]) /\ IsCont(b[4])
            /\ (b[1] = 240 => b[2] >= 144)
            /\ (b[1] = 244 => b[2] <= 143) THEN 4
    ELSE 0

Utf8CodePoint(b, n) ==
    IF n = 1 THEN b[1]
    ELSE IF n = 2 THEN (b[1] - 192) * 64 + (b[2] - 128)
    ELSE IF n = 3 THEN (b[1] - 224) * 4096 + (b[2] - 128) * 64 + (b[3] - 128)
    ELSE (b[1] - 240) * 262144 + (b[2] - 128) * 4096
            + (b[3] - 128) * 64 + (b[4] - 128)

\* std::str::from_utf8: [ok |-> whether the bytes are valid, s |-> the text]
RECURSIVE from_utf8(_)
from_utf8(b) ==
    IF Len(b) = 0 THEN [ok |-> TRUE, s |-> <<>>]
    ELSE LET n == Utf8SeqLen(b) IN
         IF n = 0 THEN [ok |-> FALSE, s |-> <<>>]
         ELSE LET rest == from_utf8(SubSeq(b, n + 1, Len(b))) IN
              [ok |-> rest.ok, s |-> <<Utf8CodePoint(b, n)>> \o rest.s]

\* The digits hex::encode_to_slice writes: 0-9 then a-f.
HEX_CHARS_LOWER == <<48, 49, 50, 51, 52, 53, 54, 55, 56, 57,
                     97, 98, 99, 100, 101, 102>>

\* hex::encode_to_slice(data, out) with out of 2 * len(data) bytes
encode_to_slice(data) ==
    [i \in 1..(2 * Len(data)) |->
        IF i % 2 = 1 THEN HEX_CHARS_LOWER[(data[(i + 1) \div 2] \div 16) + 1]
        ELSE HEX_CHARS_LOWER[(data[i \div 2] % 16) + 1]]

\* A faulty val(c): the upper-case digits A-F are not digits.
hex_val_lower(c) ==
    IF c >= 97 /\ c <= 102 THEN c - 97 + 10
    ELSE IF c >= 48 /\ c <= 57 THEN c - 48
    ELSE -1

\* hex's val(c): the value of one hex digit, -1 for any other byte
hex_val(c) ==
    IF c >= 65 /\ c <= 70 THEN c - 65 + 10
    ELSE IF c >= 97 /\ c <= 102 THEN c - 97 + 10
    ELSE IF c >= 48 /\ c <= 57 THEN c - 48
    ELSE -1

\* hex::decode_to_slice(data, out): [e |-> "Ok" or the FromHexError,
\* bytes |-> out after the call].  It writes out pair by pair and stops at
\* the first byte that is no hex digit.
decode_to_slice(data, out) ==
    IF Len(data) % 2 # 0 THEN [e |-> "OddLength", bytes |-> out]
    ELSE IF Len(data) \div 2 # Len(out)
        THEN [e |-> "InvalidStringLength", bytes |-> out]
    ELSE LET bad == {i \in 1..Len(out) :
                        \/ hex_val(data[2 * i - 1]) = -1
                        \/ hex_val(data[2 * i]) = -1}
             stop == IF bad = {} THEN Len(out) + 1
                     ELSE CHOOSE i \in bad : \A j \in bad : i <= j
         IN  [e |-> IF bad = {} THEN "Ok" ELSE "InvalidHexCharacter",
              bytes |-> [i \in 1..Len(out) |->
                            IF i < stop
                            THEN hex_val(data[2 * i - 1]) * 16
                                    + hex_val(data[2 * i])
                            ELSE out[i]]]

---------------------------------------------------------------------------
(* The Serializer (src/src/ser.rs).  Every operation takes the serializer   *)
(* and returns [s |-> the serializer after it, r |-> its Result].           *)

COLON == 58
DEFAULT_DELIMINATOR == <<COLON>>
TEXT_TRUE == <<116, 114, 117, 101>>
TEXT_FALSE == <<102, 97, 108, 115, 101>>

SerRet(s, r) == [s |-> s, r |-> r]
OkUnit == Ok(Val("unit", <<>>))

Serializer_new(writer) ==
    [output |-> writer,
     deliminator |-> DEFAULT_DELIMINATOR,
     first_part_written |-> FALSE,
     buffer |-> <<>>]

\* A set_deliminator that refuses the change once a part has been written
ser_set_deliminator_at_start(s, deliminator) ==
    IF s.first_part_written THEN s ELSE [s EXCEPT !.deliminator = deliminator]

ser_set_deliminator(s, deliminator) == [s EXCEPT !.deliminator = deliminator]

ser_with_deliminator(s, deliminator) == ser_set_deliminator(s, deliminator)

into_inner(s) == s.output

\* output.write_all(bytes) on a Vec<u8> sink
write_all(s, bytes) == [s EXCEPT !.output = @ \o bytes]

\* A faulty maybe_write_deliminator: it writes the deliminator before the
\* first part too.
maybe_write_deliminator_always(s) ==
    write_all([s EXCEPT !.first_part_written = TRUE], as_bytes(s.deliminator))

maybe_write_deliminator(s) ==
    IF s.first_part_written
    THEN write_all(s, as_bytes(s.deliminator))
    ELSE [s EXCEPT !.first_part_written = TRUE]

\* A faulty write_encode_hex: the leading zeros of the hex are not written.
write_encode_hex_trimmed(s, data) ==
    LET hex == encode_to_slice(data)
        nonzero == {i \in 1..Len(hex) : hex[i] # 48}
        trimmed == IF nonzero = {} THEN hex
                   ELSE SubSeq(hex,
                               CHOOSE i \in nonzero : \A j \in nonzero : i <= j,
                               Len(hex))
    IN  write_all([s EXCEPT !.buffer = trimmed], trimmed)

write_encode_hex(s, data) ==
    LET hex == encode_to_slice(data)
    IN  write_all([s EXCEPT !.buffer = hex], hex)

serialize_bool(s, v) ==
    SerRet(write_all(maybe_write_deliminator(s),
                     IF v THEN as_bytes(TEXT_TRUE) ELSE as_bytes(TEXT_FALSE)),
           OkUnit)

\* A faulty serialize_i8: the sign bit is not flipped.
serialize_i8_unflipped(s, v) ==
    SerRet(write_encode_hex(maybe_write_deliminator(s), to_be_bytes(v, 1)),
           OkUnit)

serialize_i8(s, v) ==
    SerRet(write_encode_hex(maybe_write_deliminator(s),
                            to_be_bytes(XorI(v, I8_MIN, 1), 1)), OkUnit)

serialize_i16(s, v) ==
    SerRet(write_encode_hex(maybe_write_deliminator(s),
                            to_be_bytes(XorI(v, I16_MIN, 2), 2)), OkUnit)

serialize_i32(s, v) ==
    SerRet(write_encode_hex(maybe_write_deliminator(s),
                            to_be_bytes(XorI(v, I32_MIN, 4), 4)), OkUnit)

serialize_u8(s, v) ==
    SerRet(write_encode_hex(maybe_write_deliminator(s), to_be_bytes(v, 1)),
           OkUnit)

serialize_u16(s, v) ==
    SerRet(write_encode_hex(maybe_write_deliminator(s), to_be_bytes(v, 2)),
           OkUnit)

\* A faulty transform: the sign bit is flipped and a negative value's other
\* bits are left as they are.
f32_transform_sign_only(val) == XorI(val, I32_MIN, 4)

\* The order-preserving transform of serialize_f32 on val = v.to_bits() as i32
f32_transform(val) ==
    LET t == OrI(ShrI(val, 31), I32_MIN, 4)
    IN  XorI(val, t, 4)

\* v is the float's bit pattern read as an i32 (v.to_bits() as i32)
serialize_f32(s, v) ==
    SerRet(write_encode_hex(maybe_write_deliminator(s),
                            to_be_bytes(f32_transform(v), 4)), OkUnit)

serialize_char(s, v) ==
    SerRet(write_all(maybe_write_deliminator(s), encode_utf8(v)), OkUnit)

serialize_str(s, v) ==
    SerRet(write_all(maybe_write_deliminator(s), as_bytes(v)), OkUnit)

serialize_bytes(s, v) ==
    SerRet(write_encode_hex(maybe_write_deliminator(s), v), OkUnit)

serialize_none(s) == SerRet(s, UnsupportedType)

serialize_some(s) == SerRet(s, UnsupportedType)

\* A faulty serialize_unit: the unit counts as a part that writes nothing.
serialize_unit_as_part(s) == SerRet(maybe_write_deliminator(s), OkUnit)

serialize_unit(s) == SerRet(s, OkUnit)

serialize_unit_struct(s) == SerRet(s, OkUnit)

serialize_unit_variant(s, variant) ==
    SerRet(write_all(maybe_write_deliminator(s), as_bytes(variant)), OkUnit)

serialize_newtype_variant(s) == SerRet(s, UnsupportedType)

\* A faulty serialize_seq: a sequence is taken and written as nothing.
serialize_seq_accepted(s) == SerRet(s, OkUnit)

serialize_seq(s) == SerRet(s, UnsupportedType)

serialize_tuple(s) == SerRet(s, OkUnit)

serialize_tuple_struct(s) == SerRet(s, OkUnit)

serialize_tuple_variant(s) == SerRet(s, UnsupportedType)

serialize_map(s) == SerRet(s, UnsupportedType)

serialize_struct(s) == SerRet(s, OkUnit)

serialize_struct_variant(s) == SerRet(s, UnsupportedType)

\* value.serialize(serializer): serde's Serialize of each kind of value calls
\* the serializer method of that kind; a tuple, tuple struct or struct then
\* serializes its fields in order through serialize_element/serialize_field
\* and stops at the first error.
RECURSIVE Serialize(_, _)
RECURSIVE SerializeFields(_, _)
Serialize(s, x) ==
    CASE x.k = "bool" -> serialize_bool(s, x.v)
      [] x.k = "i8" -> serialize_i8(s, x.v)
      [] x.k = "i16" -> serialize_i16(s, x.v)
      [] x.k = "i32" -> serialize_i32(s, x.v)
      [] x.k = "u8" -> serialize_u8(s, x.v)
      [] x.k = "u16" -> serialize_u16(s, x.v)
      [] x.k = "f32" -> serialize_f32(s, x.v)
      [] x.k = "char" -> serialize_char(s, x.v)
      [] x.k \in {"str", "string"} -> serialize_str(s, x.v)
      [] x.k \in {"bytes", "bytebuf"} -> serialize_bytes(s, x.v)
      [] x.k = "option" ->
            IF x.v = <<>> THEN serialize_none(s) ELSE serialize_some(s)
      [] x.k = "unit" -> serialize_unit(s)
      [] x.k = "unit_struct" -> serialize_unit_struct(s)
      [] x.k = "enum" ->
            (LET variant == x.v.ty[x.v.idx] IN
             IF variant.vk = "unit"
                THEN serialize_unit_variant(s, variant.name)
             ELSE IF variant.vk = "newtype" THEN serialize_newtype_variant(s)
             ELSE IF variant.vk = "tuple" THEN serialize_tuple_variant(s)
             ELSE serialize_struct_variant(s))
      [] x.k = "newtype" -> Serialize(s, x.v)
      [] x.k = "seq" -> serialize_seq(s)
      [] x.k = "map" -> serialize_map(s)
      [] x.k = "tuple" ->
            (LET r == serialize_tuple(s) IN SerializeFields(r.s, x.v))
      [] x.k = "tuple_struct" ->
            (LET r == serialize_tuple_struct(s) IN SerializeFields(r.s, x.v))
      [] x.k = "struct" ->
            (LET r == serialize_struct(s) IN SerializeFields(r.s, x.v))

SerializeFields(s, fields) ==
    IF Len(fields) = 0 THEN SerRet(s, OkUnit)
    ELSE LET r == Serialize(s, fields[1]) IN
         IF r.r.tag = "Err" THEN r
         ELSE SerializeFields(r.s, Tail(fields))

\* to_vec: [s |-> the serializer when it returns, r |-> Ok(the buffer) or
\* the error]
to_vec(x) ==
    LET serializer == ser_with_deliminator(Serializer_new(<<>>),
                                           DEFAULT_DELIMINATOR)
        r == Serialize(serializer, x)
    IN  IF r.r.tag = "Err" THEN r
        ELSE SerRet(r.s, Ok(Val("vec", r.s.output)))

\* A transactional to_writer: on an error the sink is left as it was.
to_writer_transactional(writer, x) ==
    LET r == Serialize(ser_with_deliminator(Serializer_new(writer),
                                            DEFAULT_DELIMINATOR), x)
    IN  IF r.r.tag = "Err" THEN SerRet([r.s EXCEPT !.output = writer], r.r)
        ELSE r

\* to_writer: [s |-> the serializer when it returns, its output being the
\* sink, r |-> Ok(()) or the error]
to_writer(writer, x) ==
    Serialize(ser_with_deliminator(Serializer_new(writer),
                                   DEFAULT_DELIMINATOR), x)

---------------------------------------------------------------------------
(* The component readers (src/src/de.rs, ComponentRead).  The reader and    *)
(* the Deserializer that owns it are one record:                            *)
(*   kind        "slice" (SliceReader) or "io" (IoReader)                   *)
(*   input       the slice, or what the io source has not yet handed out    *)
(*   deliminator                                                            *)
(*   components  the Option<VecDeque<Component>>: [some, q]                 *)
(*   buffer      the Deserializer's hex buffer                             *)
(* Every operation returns [de |-> the record after it, r |-> its Result].  *)

DeRet(d, r) == [de |-> d, r |-> r]
NoComponents == [some |-> FALSE, q |-> <<>>]
SomeComponents(q) == [some |-> TRUE, q |-> q]
Component(own, s) == [own |-> own, s |-> s]

\* The least i with d at s[i..], 0 when d does not occur in s
FindFirst(s, d) ==
    LET hits == {i \in 1..(Len(s) - Len(d) + 1) :
                    SubSeq(s, i, i + Len(d) - 1) = d}
    IN  IF hits = {} THEN 0 ELSE CHOOSE i \in hits : \A j \in hits : i <= j

\* str::split(pattern): the text between the non-overlapping matches of the
\* pattern, scanned left to right.  The empty pattern matches at every
\* character boundary, the two ends included.
RECURSIVE SplitNonEmpty(_, _)
SplitNonEmpty(s, d) ==
    LET i == FindFirst(s, d) IN
    IF i = 0 THEN <<s>>
    ELSE <<SubSeq(s, 1, i - 1)>>
            \o SplitNonEmpty(SubSeq(s, i + Len(d), Len(s)), d)

\* A faulty split: the empty parts are left out.
split_skip_empty(s, d) ==
    LET parts == SplitNonEmpty(s, d)
    IN  IF \A i \in 1..Len(parts) : parts[i] # <<>> THEN parts
        ELSE <<>>

split(s, d) ==
    IF Len(d) = 0
    THEN <<<<>>>> \o [i \in 1..Len(s) |-> <<s[i]>>] \o <<<<>>>>
    ELSE SplitNonEmpty(s, d)

SliceReader_new(input) ==
    [kind |-> "slice", input |-> input, deliminator |-> DEFAULT_DELIMINATOR,
     components |-> NoComponents, buffer |-> <<>>]

IoReader_new(input) ==
    [kind |-> "io", input |-> input, deliminator |-> DEFAULT_DELIMINATOR,
     components |-> NoComponents, buffer |-> <<>>]

de_set_deliminator(d, deliminator) == [d EXCEPT !.deliminator = deliminator]

\* A faulty split into components: the empty text is split like any other
\* and gives one empty component.
SplitComponents_keep_empty(text, deliminator, own) ==
    [i \in 1..Len(split(text, deliminator)) |->
        Component(own, split(text, deliminator)[i])]

\* The queue the split of text gives, every component owned or borrowed
SplitComponents(text, deliminator, own) ==
    IF Len(text) = 0 THEN <<>>
    ELSE LET parts == split(text, deliminator)
         IN  [i \in 1..Len(parts) |-> Component(own, parts[i])]

\* A faulty preload_components: the input is split on every call.
SliceReader_preload_components_again(d) ==
    LET decoded_str == from_utf8(d.input) IN
    IF ~decoded_str.ok
    THEN DeRet(d, Err("Utf8StringDecode", "", <<>>))
    ELSE DeRet([d EXCEPT !.components =
                   SomeComponents(SplitComponents(decoded_str.s,
                                                  d.deliminator,
                                                  "Borrowed"))],
               OkUnit)

SliceReader_preload_components(d) ==
    IF d.components.some THEN DeRet(d, OkUnit)
    ELSE LET decoded_str == from_utf8(d.input) IN
         IF ~decoded_str.ok
         THEN DeRet(d, Err("Utf8StringDecode", "", <<>>))
         ELSE DeRet([d EXCEPT !.components =
                        SomeComponents(SplitComponents(decoded_str.s,
                                                       d.deliminator,
                                                       "Borrowed"))],
                    OkUnit)

\* read_to_string drains the source; text that is not UTF-8 is an io error
\* of kind InvalidData.
IoReader_preload_components(d) ==
    IF d.components.some THEN DeRet(d, OkUnit)
    ELSE LET buf == from_utf8(d.input)
             drained == [d EXCEPT !.input = <<>>]
         IN  IF ~buf.ok THEN DeRet(drained, Err("Io", "InvalidData", <<>>))
             ELSE DeRet([drained EXCEPT !.components =
                            SomeComponents(SplitComponents(buf.s,
                                                           d.deliminator,
                                                           "Owned"))],
                        OkUnit)

preload_components(d) ==
    IF d.kind = "slice" THEN SliceReader_preload_components(d)
    ELSE IoReader_preload_components(d)

\* ComponentRead::next_component: Ok(Some(component)), Ok(None) or the
\* error of the preload
reader_next_component(d) ==
    Bind(preload_components(d), LAMBDA p :
    IF p.r.tag = "Err" THEN p
    ELSE IF Len(p.de.components.q) = 0 THEN DeRet(p.de, Ok(NoValue))
    ELSE DeRet([p.de EXCEPT !.components.q = Tail(@)],
               Ok(Val("some", Head(p.de.components.q)))))

---------------------------------------------------------------------------
(* The Deserializer (src/src/de.rs).                                        *)

Deserializer_from_slice(input) == SliceReader_new(input)

Deserializer_from_reader(input) == IoReader_new(input)

\* A faulty end: what is left in the queue is not looked at.
end_unchecked(d) ==
    Bind(preload_components(d), LAMBDA p :
    IF p.r.tag = "Err" THEN p ELSE DeRet(p.de, OkUnit))

\* An end that only looks: a component that is left stays in the queue.
end_peek(d) ==
    Bind(reader_next_component(d), LAMBDA n :
    IF n.r.tag = "Err" THEN n
    ELSE IF n.r.val.k = "some" THEN DeRet(d, Syntax)
    ELSE DeRet(n.de, OkUnit))

end(d) ==
    Bind(reader_next_component(d), LAMBDA n :
    IF n.r.tag = "Err" THEN n
    ELSE IF n.r.val.k = "some" THEN DeRet(n.de, Syntax)
    ELSE DeRet(n.de, OkUnit))

\* A faulty next_component: the component is read and left in the queue.
next_component_peek(d) ==
    Bind(reader_next_component(d), LAMBDA n :
    IF n.r.tag = "Err" THEN n
    ELSE IF n.r.val.k = "some" THEN DeRet(d, Ok(n.r.val.v))
    ELSE DeRet(n.de, Syntax))

\* Deserializer::next_component: Ok(component), or Syntax when none is left
next_component(d) ==
    Bind(reader_next_component(d), LAMBDA n :
    IF n.r.tag = "Err" THEN n
    ELSE IF n.r.val.k = "some" THEN DeRet(n.de, Ok(n.r.val.v))
    ELSE DeRet(n.de, Syntax))

\* Vec::resize(n, 0)
resize(buf, n) == [i \in 1..n |-> IF i <= Len(buf) THEN buf[i] ELSE 0]

\* Ok(component) with the decoded bytes left in the buffer, or the error
next_component_decode_hex(d) ==
    Bind(reader_next_component(d), LAMBDA n :
    IF n.r.tag = "Err" THEN n
    ELSE IF n.r.val.k # "some" THEN DeRet(n.de, Syntax)
    ELSE LET component == n.r.val.v
             text == as_bytes(component.s)
             sized == resize(n.de.buffer, Len(text) \div 2)
             hex == decode_to_slice(text, sized)
             after == [n.de EXCEPT !.buffer = hex.bytes]
         IN  IF hex.e # "Ok" THEN DeRet(after, Err("Data", hex.e, <<>>))
             ELSE DeRet(after, Ok(component)))

\* Error::Data(component.to_owned())
DataOf(component) == Err("Data", "component", component.s)

deserialize_any(d) == DeRet(d, UnsupportedType)

\* A faulty deserialize_bool: no component reads as false.
deserialize_bool_default(d) ==
    Bind(reader_next_component(d), LAMBDA n :
    IF n.r.tag = "Err" THEN n
    ELSE IF n.r.val.k = "some" THEN
        LET component == n.r.val.v IN
        IF component.s = TEXT_TRUE THEN DeRet(n.de, Ok(Val("bool", TRUE)))
        ELSE IF component.s = TEXT_FALSE
            THEN DeRet(n.de, Ok(Val("bool", FALSE)))
        ELSE DeRet(n.de, DataOf(component))
    ELSE DeRet(n.de, Ok(Val("bool", FALSE))))

deserialize_bool(d) ==
    Bind(reader_next_component(d), LAMBDA n :
    IF n.r.tag = "Err" THEN n
    ELSE IF n.r.val.k = "some" THEN
        LET component == n.r.val.v IN
        IF component.s = TEXT_TRUE THEN DeRet(n.de, Ok(Val("bool", TRUE)))
        ELSE IF component.s = TEXT_FALSE
            THEN DeRet(n.de, Ok(Val("bool", FALSE)))
        ELSE DeRet(n.de, DataOf(component))
    ELSE DeRet(n.de, Syntax))

deserialize_i8(d) ==
    Bind(next_component_decode_hex(d), LAMBDA h :
    IF h.r.tag = "Err" THEN h
    ELSE IF Len(h.de.buffer) # 1 THEN DeRet(h.de, DataOf(h.r.val))
    ELSE DeRet(h.de,
               Ok(Val("i8", XorI(from_be_bytes_i(h.de.buffer), I8_MIN, 1)))))

\* A faulty deserialize_i16: the sign bit is left flipped.
deserialize_i16_unflipped(d) ==
    Bind(next_component_decode_hex(d), LAMBDA h :
    IF h.r.tag = "Err" THEN h
    ELSE IF Len(h.de.buffer) # 2 THEN DeRet(h.de, DataOf(h.r.val))
    ELSE DeRet(h.de, Ok(Val("i16", from_be_bytes_i(h.de.buffer)))))

deserialize_i16(d) ==
    Bind(next_component_decode_hex(d), LAMBDA h :
    IF h.r.tag = "Err" THEN h
    ELSE IF Len(h.de.buffer) # 2 THEN DeRet(h.de, DataOf(h.r.val))
    ELSE DeRet(h.de,
               Ok(Val("i16", XorI(from_be_bytes_i(h.de.buffer), I16_MIN, 2)))))

deserialize_i32(d) ==
    Bind(next_component_decode_hex(d), LAMBDA h :
    IF h.r.tag = "Err" THEN h
    ELSE IF Len(h.de.buffer) # 4 THEN DeRet(h.de, DataOf(h.r.val))
    ELSE DeRet(h.de,
               Ok(Val("i32", XorI(from_be_bytes_i(h.de.buffer), I32_MIN, 4)))))

deserialize_u8(d) ==
    Bind(next_component_decode_hex(d), LAMBDA h :
    IF h.r.tag = "Err" THEN h
    ELSE IF Len(h.de.buffer) # 1 THEN DeRet(h.de, DataOf(h.r.val))
    ELSE DeRet(h.de, Ok(Val("u8", from_be_bytes_u(h.de.buffer)))))

deserialize_u16(d) ==
    Bind(next_component_decode_hex(d), LAMBDA h :
    IF h.r.tag = "Err" THEN h
    ELSE IF Len(h.de.buffer) # 2 THEN DeRet(h.de, DataOf(h.r.val))
    ELSE DeRet(h.de, Ok(Val("u16", from_be_bytes_u(h.de.buffer)))))

\* The inverse transform of deserialize_f32 on val = i32::from_be_bytes
\* A faulty decoder transform: the encoder's transform is applied again.
f32_untransform_same(val) == f32_transform(val)

f32_untransform(val) ==
    LET t == OrI(ShrI(XorI(val, I32_MIN, 4), 31), I32_MIN, 4)
    IN  XorI(val, t, 4)

deserialize_f32(d) ==
    Bind(next_component_decode_hex(d), LAMBDA h :
    IF h.r.tag = "Err" THEN h
    ELSE IF Len(h.de.buffer) # 4 THEN DeRet(h.de, DataOf(h.r.val))
    ELSE DeRet(h.de,
               Ok(Val("f32", f32_untransform(from_be_bytes_i(h.de.buffer))))))

\* A faulty deserialize_char: the first character of a longer component is
\* taken.
deserialize_char_first(d) ==
    Bind(next_component(d), LAMBDA n :
    IF n.r.tag = "Err" THEN n
    ELSE IF Len(n.r.val.s) >= 1
        THEN DeRet(n.de, Ok(Val("char", n.r.val.s[1])))
    ELSE DeRet(n.de, DataOf(n.r.val)))

deserialize_char(d) ==
    Bind(next_component(d), LAMBDA n :
    IF n.r.tag = "Err" THEN n
    ELSE IF Len(n.r.val.s) = 1
        THEN DeRet(n.de, Ok(Val("char", n.r.val.s[1])))
    ELSE DeRet(n.de, DataOf(n.r.val)))

\* A faulty custom: the message is filed as a Data error.
custom_data(msg) == Err("Data", msg, <<>>)

\* Error::custom(msg) of serde::de::Error: Error::Other(msg)
custom(msg) == Err("Other", msg, <<>>)

\* What serde's visitors do with what the Deserializer hands them.  The
\* visitor is the one of the requested type: "string" (String), "str"
\* (&'de str), "bytebuf" (ByteBuf), "bytes" (&'de Bytes), "field" (the
\* variant identifier of a derived enum, v its variants).
\* Position of the variant named text, 0 when there is none
VariantIndex(variants, text) ==
    LET hits == {i \in 1..Len(variants) : variants[i].name = text}
    IN  IF hits = {} THEN 0 ELSE CHOOSE i \in hits : \A j \in hits : i <= j

visit_str(visitor, text) ==
    IF visitor.k = "string" THEN Ok(Val("string", text))
    ELSE IF visitor.k = "field" THEN
        IF VariantIndex(visitor.v, text) = 0 THEN custom("unknown variant")
        ELSE Ok(Val("field", VariantIndex(visitor.v, text)))
    ELSE custom("invalid type")

visit_string(visitor, text) == visit_str(visitor, text)

visit_borrowed_str(visitor, text) ==
    IF visitor.k = "str" THEN Ok(Val("str", text))
    ELSE visit_str(visitor, text)

\* A faulty visit_bytes: a visitor that borrows takes the transient buffer.
visit_bytes_borrowing(visitor, bytes) ==
    IF visitor.k \in {"bytes", "bytebuf"} THEN Ok(Val(visitor.k, bytes))
    ELSE custom("invalid type")

visit_bytes(visitor, bytes) ==
    IF visitor.k = "bytebuf" THEN Ok(Val("bytebuf", bytes))
    ELSE custom("invalid type")

\* A faulty deserialize_str: an owned component is handed over as if it
\* were borrowed from the input.
deserialize_str_as_borrowed(d, visitor) ==
    Bind(next_component(d), LAMBDA n :
    IF n.r.tag = "Err" THEN n
    ELSE DeRet(n.de, visit_borrowed_str(visitor, n.r.val.s)))

deserialize_str(d, visitor) ==
    Bind(next_component(d), LAMBDA n :
    IF n.r.tag = "Err" THEN n
    ELSE IF n.r.val.own = "Owned"
        THEN DeRet(n.de, visit_string(visitor, n.r.val.s))
    ELSE DeRet(n.de, visit_borrowed_str(visitor, n.r.val.s)))

deserialize_string(d, visitor) ==
    Bind(next_component(d), LAMBDA n :
    IF n.r.tag = "Err" THEN n
    ELSE IF n.r.val.own = "Owned"
        THEN DeRet(n.de, visit_string(visitor, n.r.val.s))
    ELSE DeRet(n.de, visit_borrowed_str(visitor, n.r.val.s)))

deserialize_bytes(d, visitor) ==
    Bind(next_component_decode_hex(d), LAMBDA h :
    IF h.r.tag = "Err" THEN h
    ELSE DeRet(h.de, visit_bytes(visitor, h.de.buffer)))

deserialize_byte_buf(d, visitor) ==
    Bind(next_component_decode_hex(d), LAMBDA h :
    IF h.r.tag = "Err" THEN h
    ELSE DeRet(h.de, visit_bytes(visitor, h.de.buffer)))

\* A faulty deserialize_option: the queue is built before the refusal.
deserialize_option_preloaded(d) ==
    DeRet(preload_components(d).de, UnsupportedType)

deserialize_option(d) == DeRet(d, UnsupportedType)

deserialize_unit(d) ==
    Bind(preload_components(d), LAMBDA p :
    IF p.r.tag = "Err" THEN p ELSE DeRet(p.de, Ok(Val("unit", <<>>))))

deserialize_unit_struct(d) ==
    Bind(preload_components(d), LAMBDA p :
    IF p.r.tag = "Err" THEN p ELSE DeRet(p.de, Ok(Val("unit_struct", <<>>))))

deserialize_seq(d) == DeRet(d, UnsupportedType)

deserialize_map(d) == DeRet(d, UnsupportedType)

deserialize_identifier(d, visitor) == deserialize_str(d, visitor)

deserialize_ignored_any(d) == DeRet(d, UnsupportedType)

\* VariantAccess for CollectionDeserializer
unit_variant(d) == DeRet(d, OkUnit)

newtype_variant_seed(d) == DeRet(d, UnsupportedType)

\* A faulty tuple_variant: the variant is taken as if it had no fields.
tuple_variant_accepted(d) == DeRet(d, OkUnit)

tuple_variant(d) == DeRet(d, UnsupportedType)

struct_variant(d) == DeRet(d, UnsupportedType)

\* EnumAccess::variant_seed: the seed is the variant identifier of the enum
variant_seed(d, variants) == deserialize_identifier(d, Val("field", variants))

\* deserialize_enum: visitor.visit_enum(CollectionDeserializer); the derived
\* visitor asks for the variant, then for the content of that variant.
deserialize_enum(d, variants) ==
    Bind(variant_seed(d, variants), LAMBDA f :
    IF f.r.tag = "Err" THEN f
    ELSE LET idx == f.r.val.v
             vk == variants[idx].vk
         IN  Bind(IF vk = "unit" THEN unit_variant(f.de)
                  ELSE IF vk = "newtype" THEN newtype_variant_seed(f.de)
                  ELSE IF vk = "tuple" THEN tuple_variant(f.de)
                  ELSE struct_variant(f.de), LAMBDA c :
             IF c.r.tag = "Err" THEN c
             ELSE DeRet(c.de,
                        Ok(Val("enum", [ty |-> variants, idx |-> idx])))))

\* T::deserialize(deserializer) for the type of shape sh: serde's Deserialize
\* of each kind calls the deserializer method of that kind.  A tuple, tuple
\* struct or struct is read through visit_seq(CollectionDeserializer): the
\* visitor takes one next_element_seed per field, in order, and stops at the
\* first error.
RECURSIVE Deserialize(_, _)
RECURSIVE next_elements(_, _)
Deserialize(d, sh) ==
    CASE sh.k = "bool" -> deserialize_bool(d)
      [] sh.k = "i8" -> deserialize_i8(d)
      [] sh.k = "i16" -> deserialize_i16(d)
      [] sh.k = "i32" -> deserialize_i32(d)
      [] sh.k = "u8" -> deserialize_u8(d)
      [] sh.k = "u16" -> deserialize_u16(d)
      [] sh.k = "f32" -> deserialize_f32(d)
      [] sh.k = "char" -> deserialize_char(d)
      [] sh.k = "str" -> deserialize_str(d, Val("str", <<>>))
      [] sh.k = "string" -> deserialize_string(d, Val("string", <<>>))
      [] sh.k = "bytes" -> deserialize_bytes(d, Val("bytes", <<>>))
      [] sh.k = "bytebuf" -> deserialize_byte_buf(d, Val("bytebuf", <<>>))
      [] sh.k = "option" -> deserialize_option(d)
      [] sh.k = "unit" -> deserialize_unit(d)
      [] sh.k = "unit_struct" -> deserialize_unit_struct(d)
      [] sh.k = "newtype" ->
            Bind(Deserialize(d, sh.v), LAMBDA r :
                 IF r.r.tag = "Err" THEN r
                 ELSE DeRet(r.de, Ok(Val("newtype", r.r.val))))
      [] sh.k = "seq" -> deserialize_seq(d)
      [] sh.k = "map" -> deserialize_map(d)
      [] sh.k \in {"tuple", "tuple_struct", "struct"} ->
            Bind(next_elements(d, sh.v), LAMBDA r :
                 IF r.r.tag = "Err" THEN r
                 ELSE DeRet(r.de, Ok(Val(sh.k, r.r.val.v))))
      [] sh.k = "enum" -> deserialize_enum(d, sh.v)
      [] sh.k = "any" -> deserialize_any(d)
      [] sh.k = "ignored_any" -> deserialize_ignored_any(d)

\* SeqAccess::next_element_seed for each of the fields in turn:
\* Ok(the values) or the first error
next_elements(d, fields) ==
    IF Len(fields) = 0 THEN DeRet(d, Ok(Val("fields", <<>>)))
    ELSE Bind(Deserialize(d, fields[1]), LAMBDA r :
         IF r.r.tag = "Err" THEN r
         ELSE Bind(next_elements(r.de, Tail(fields)), LAMBDA rest :
              IF rest.r.tag = "Err" THEN rest
              ELSE DeRet(rest.de,
                         Ok(Val("fields", <<r.r.val>> \o rest.r.val.v)))))

\* from_slice and from_reader: deserialize, then end()
Decode(d, sh) ==
    Bind(Deserialize(d, sh), LAMBDA output :
    IF output.r.tag = "Err" THEN output
    ELSE Bind(end(output.de), LAMBDA e :
         IF e.r.tag = "Err" THEN e ELSE DeRet(e.de, output.r)))

from_slice(input, sh) == Decode(Deserializer_from_slice(input), sh)

from_reader(input, sh) == Decode(Deserializer_from_reader(input), sh)

\* The shape of a value: its kinds without its data
RECURSIVE ShapeOf(_)
ShapeOf(x) ==
    IF x.k = "newtype" THEN Val("newtype", ShapeOf(x.v))
    ELSE IF x.k \in {"tuple", "tuple_struct", "struct"}
        THEN Val(x.k, [i \in 1..Len(x.v) |-> ShapeOf(x.v[i])])
    ELSE IF x.k = "enum" THEN Val("enum", x.v.ty)
    ELSE Val(x.k, <<>>)

---------------------------------------------------------------------------
(* The inputs: the values handed to the encoder and the documents and       *)
(* target shapes handed to the decoder.                                     *)

MaxLen == 2          \* longest string and byte blob
MaxTupleLen == 2     \* most fields of a tuple
MaxComponents == 2   \* most components of a hand-written document

SeqsUpTo(S, n) == UNION {[1..m -> S] : m \in 0..n}

\* enum MyEnum { Hello, World } of the tests
MyEnum ==
    <<[name |-> <<72, 101, 108, 108, 111>>, vk |-> "unit"],
      [name |-> <<87, 111, 114, 108, 100>>, vk |-> "unit"]>>

\* An enum whose variants carry data, as the MyEnum of test_newtype_variant,
\* test_tuple_variant and test_struct_variant do
MyPayloadEnum ==
    <<[name |-> <<97, 97>>, vk |-> "newtype"],
      [name |-> <<87, 111, 114, 108, 100>>, vk |-> "tuple"],
      [name |-> <<104>>, vk |-> "struct"]>>

Unit == Val("unit", <<>>)
U16Samples == {0, 1, 2, 255, 256, 1234, 32767, 32768, 43707, 65535}
I16Samples == {I16_MIN, I16_MIN + 1, -257, -256, -1, 0, 1, 255, 256, 12345,
               32767}
I32Samples == {I32_MIN, I32_MIN + 1, -65536, -256, -1, 0, 1, 255, 65536,
               1234567890, I32_MAX}
\* f32 bit patterns read as i32: zeros, subnormals, normals, the largest
\* finite values, infinities and NaNs of both signs, and the tests' values
F32Samples == {0, 1, 8388607, 8388608, 1039918957, 1065353216, 1150964204,
               2139095039, 2139095040, 2143289344, I32_MAX,
               I32_MIN, I32_MIN + 1, -2139095041, -2139095040, -1082130432,
               -1024005767, -8388609, -8388608, -4194304, -1}
\* a : 0 e-acute and the tests' four-byte character
CharSamples == {97, 58, 48, 233, 128058}
StrAlphabet == {97, 48, 58, 233}
BlobAlphabet == {0, 202, 254}
Strings == SeqsUpTo(StrAlphabet, MaxLen)
Blobs == SeqsUpTo(BlobAlphabet, MaxLen)

Scalars ==
    {Val("bool", b) : b \in BOOLEAN}
        \cup {Val("u8", n) : n \in 0..255}
        \cup {Val("i8", n) : n \in I8_MIN..127}
        \cup {Val("u16", n) : n \in U16Samples}
        \cup {Val("i16", n) : n \in I16Samples}
        \cup {Val("i32", n) : n \in I32Samples}
        \cup {Val("f32", n) : n \in F32Samples}
        \cup {Val("char", c) : c \in CharSamples}
        \cup {Val(k, s) : k \in {"str", "string"}, s \in Strings}
        \cup {Val(k, b) : k \in {"bytes", "bytebuf"}, b \in Blobs}
        \cup {Unit, Val("unit_struct", <<>>)}
        \cup {Val("enum", [ty |-> MyEnum, idx |-> i]) : i \in 1..2}

\* What the fields of a tuple are drawn from
FieldVals ==
    {Val("bool", TRUE), Val("u8", 1), Val("u8", 2), Val("i8", -1),
     Val("string", <<>>), Val("string", <<97>>), Val("string", <<97, 48>>),
     Val("char", 97), Val("bytebuf", <<202>>), Val("f32", 1150964204),
     Unit, Val("enum", [ty |-> MyEnum, idx |-> 2])}

\* What the fields of a nested tuple are drawn from
InnerVals ==
    {Val("u8", 1), Val("string", <<97>>), Unit, Val("tuple", <<>>),
     Val("tuple", <<Val("u8", 1), Val("string", <<97>>)>>),
     Val("tuple", <<Unit, Unit>>),
     Val("newtype", Val("u8", 2)),
     Val("struct", <<Val("str", <<104>>), Val("u8", 1)>>),
     Val("tuple_struct", <<Val("string", <<>>), Val("u16", 2)>>)}

\* Values that are, or hold at some depth, what the encoding does not
\* support: None, Some(1u8), a sequence, a map, a variant that carries data
UnsupportedVals ==
    {Val("option", <<>>), Val("option", <<Val("u8", 1)>>),
     Val("seq", <<Val("u8", 1)>>), Val("map", <<>>),
     Val("tuple", <<Val("u8", 1), Val("option", <<>>)>>),
     Val("tuple", <<Val("string", <<97>>),
                    Val("tuple", <<Val("u8", 2), Val("seq", <<>>)>>),
                    Val("u8", 1)>>),
     Val("newtype", Val("map", <<>>)),
     Val("struct", <<Val("bool", TRUE),
                     Val("newtype", Val("option", <<Unit>>))>>)}
        \cup {Val("enum", [ty |-> MyPayloadEnum, idx |-> i]) : i \in 1..3}
        \cup {Val("tuple", <<Val("u8", 1),
                             Val("enum", [ty |-> MyPayloadEnum, idx |-> 2])>>)}

Values ==
    Scalars
        \cup {Val("tuple", f) : f \in SeqsUpTo(FieldVals, MaxTupleLen)}
        \cup {Val("tuple", f) : f \in SeqsUpTo(InnerVals, MaxTupleLen)}
        \cup {Val("newtype", x) : x \in FieldVals \cup InnerVals}
        \cup UnsupportedVals

\* The components hand-written documents are joined from: "", "true", "h",
\* "aa", "AA", "0002", "World", e-acute, and a byte that is not UTF-8
ComponentPool ==
    {<<>>, <<116, 114, 117, 101>>, <<104>>, <<97, 97>>, <<65, 65>>,
     <<48, 48, 48, 50>>, <<87, 111, 114, 108, 100>>, <<195, 169>>, <<254>>,
     <<99, 97, 102, 101>>}

RECURSIVE Join(_, _)
Join(parts, sep) ==
    IF Len(parts) = 0 THEN <<>>
    ELSE IF Len(parts) = 1 THEN parts[1]
    ELSE parts[1] \o sep \o Join(Tail(parts), sep)

Documents ==
    {Join(c, <<COLON>>) : c \in SeqsUpTo(ComponentPool, MaxComponents)}

ScalarShapes ==
    {Val(k, <<>>) : k \in {"bool", "u8", "i8", "u16", "i16", "i32", "f32",
                           "char", "str", "string", "bytes", "bytebuf"}}
        \cup {Val("enum", MyEnum)}

\* Option<T>, Vec<T>, a map, and what deserialize_any and
\* deserialize_ignored_any are asked for
UnsupportedShapes ==
    {Val(k, <<>>) : k \in {"option", "seq", "map", "any", "ignored_any"}}

Shapes ==
    ScalarShapes
        \cup {Unit, Val("unit_struct", <<>>), Val("newtype", Unit),
              Val("newtype", Val("u8", <<>>)),
              Val("tuple", <<>>), Val("tuple", <<Unit, Unit>>),
              Val("tuple", <<Val("u8", <<>>), Val("string", <<>>)>>),
              Val("tuple", <<Val("bool", <<>>), Val("char", <<>>)>>),
              Val("struct", <<Val("str", <<>>), Val("u16", <<>>)>>),
              Val("tuple", <<Val("tuple", <<Val("str", <<>>), Unit>>),
                             Val("enum", MyEnum)>>)}
        \cup UnsupportedShapes
        \cup {Val("enum", MyPayloadEnum)}

\* Whether a value of the shape borrows from the input (from_reader asks
\* for DeserializeOwned)
RECURSIVE Borrows(_)
Borrows(sh) ==
    IF sh.k \in {"str", "bytes"} THEN TRUE
    ELSE IF sh.k = "newtype" THEN Borrows(sh.v)
    ELSE IF sh.k \in {"tuple", "tuple_struct", "struct"}
        THEN \E i \in 1..Len(sh.v) : Borrows(sh.v[i])
    ELSE FALSE

---------------------------------------------------------------------------
(* The caller: encode a value with to_vec and decode what it gave, or       *)
(* decode a document; decode with from_slice, with from_reader, or by hand  *)
(* as in the Deserializer's example (new, deserialize, end).                *)

NoDeserializer ==
    [kind |-> "none", input |-> <<>>, deliminator |-> DEFAULT_DELIMINATOR,
     components |-> NoComponents, buffer |-> <<>>]

InitValue ==
    /\ value \in Values
    /\ source = <<>>
    /\ shape = ShapeOf(value)
    /\ pc = "value"

InitInput ==
    /\ value = NoValue
    /\ source \in Documents
    /\ shape \in Shapes
    /\ pc = "input"

Init ==
    /\ InitValue \/ InitInput
    /\ ser = Serializer_new(<<>>)
    /\ serRes = NoResult
    /\ de = NoDeserializer
    /\ decRes = NoResult
    /\ endRes = NoResult
    /\ other = NoValue
    /\ keys = <<>>

\* to_vec(&value)
ToVec ==
    /\ pc = "value"
    /\ LET r == to_vec(value) IN
        /\ ser' = r.s
        /\ serRes' = r.r
        /\ source' = IF r.r.tag = "Ok" THEN r.r.val.v ELSE source
        /\ pc' = IF r.r.tag = "Ok" THEN "input" ELSE "done"
    /\ UNCHANGED <<value, shape, de, decRes, endRes, other, keys>>

\* to_writer(Vec::new(), &value); ser.output is the sink afterwards
ToWriter ==
    /\ pc = "value"
    /\ LET r == to_writer(<<>>, value) IN
        /\ ser' = r.s
        /\ serRes' = r.r
    /\ pc' = "written"
    /\ UNCHANGED <<value, source, shape, de, decRes, endRes, other, keys>>

\* from_slice::<T>(&source)
FromSlice ==
    /\ pc = "input"
    /\ LET r == from_slice(source, shape) IN
        /\ de' = r.de
        /\ decRes' = r.r
    /\ pc' = "done"
    /\ UNCHANGED <<value, ser, serRes, source, shape, endRes, other, keys>>

\* from_reader::<_, T>(source)
FromReader ==
    /\ pc = "input"
    /\ ~Borrows(shape)
    /\ LET r == from_reader(source, shape) IN
        /\ de' = r.de
        /\ decRes' = r.r
    /\ pc' = "done"
    /\ UNCHANGED <<value, ser, serRes, source, shape, endRes, other, keys>>

\* Deserializer::from_slice(&source)
NewFromSlice ==
    /\ pc = "input"
    /\ de' = Deserializer_from_slice(source)
    /\ pc' = "open"
    /\ UNCHANGED <<value, ser, serRes, source, shape, decRes, endRes, other,
                   keys>>

\* Deserializer::from_reader(source)
NewFromReader ==
    /\ pc = "input"
    /\ de' = Deserializer_from_reader(source)
    /\ pc' = "open"
    /\ UNCHANGED <<value, ser, serRes, source, shape, decRes, endRes, other,
                   keys>>

\* T::deserialize(&mut deserializer) for the target shape
DeserializeCall ==
    /\ pc = "open"
    /\ LET r == Deserialize(de, shape) IN
        /\ de' = r.de
        /\ decRes' = r.r
    /\ pc' = "decoded"
    /\ UNCHANGED <<value, ser, serRes, source, shape, endRes, other, keys>>

\* One more read from the same deserializer, of a scalar or of a type the
\* deserializer refuses
DeserializeMore ==
    /\ pc = "decoded"
    /\ \E sh \in ScalarShapes \cup UnsupportedShapes :
        /\ shape' = sh
        /\ LET r == Deserialize(de, sh) IN
            /\ de' = r.de
            /\ decRes' = r.r
    /\ pc' = "more"
    /\ UNCHANGED <<value, ser, serRes, source, endRes, other, keys>>

\* deserializer.end()
EndCall ==
    /\ pc \in {"decoded", "ended"}
    /\ LET r == end(de) IN
        /\ de' = r.de
        /\ endRes' = r.r
    /\ pc' = IF pc = "decoded" THEN "ended" ELSE "ended2"
    /\ UNCHANGED <<value, ser, serRes, source, shape, decRes, other, keys>>

Next ==
    \/ ToVec
    \/ ToWriter
    \/ FromSlice
    \/ FromReader
    \/ NewFromSlice
    \/ NewFromReader
    \/ DeserializeCall
    \/ DeserializeMore
    \/ EndCall

Spec == Init /\ [][Next]_vars

---------------------------------------------------------------------------
(* The caller that compares keys: encode a value, encode a second value of  *)
(* the same shape, and compare the two keys as byte strings (the tests'     *)
(* is_sorted over the encodings, src/src/ser.rs 554-590).                   *)

InitOrder ==
    /\ value \in Values
    /\ source = <<>>
    /\ shape = ShapeOf(value)
    /\ pc = "order"
    /\ ser = Serializer_new(<<>>)
    /\ serRes = NoResult
    /\ de = NoDeserializer
    /\ decRes = NoResult
    /\ endRes = NoResult
    /\ other = NoValue
    /\ keys = <<>>

\* keys.push(to_vec(&value))
EncodeValue ==
    /\ pc = "order"
    /\ LET r == to_vec(value) IN
        /\ ser' = r.s
        /\ serRes' = r.r
        /\ keys' = IF r.r.tag = "Ok" THEN <<r.r.val.v>> ELSE keys
        /\ pc' = IF r.r.tag = "Ok" THEN "first" ELSE "done"
    /\ UNCHANGED <<value, source, shape, de, decRes, endRes, other>>

\* keys.push(to_vec(&other)) for a second value of the type of the first
EncodeOther ==
    /\ pc = "first"
    /\ \E o \in Values :
        /\ ShapeOf(o) = shape
        /\ other' = o
        /\ LET r == to_vec(o) IN
            /\ ser' = r.s
            /\ serRes' = r.r
            /\ keys' = IF r.r.tag = "Ok" THEN Append(keys, r.r.val.v) ELSE keys
            /\ pc' = IF r.r.tag = "Ok" THEN "compared" ELSE "done"
    /\ UNCHANGED <<value, source, shape, de, decRes, endRes>>

NextOrder ==
    \/ EncodeValue
    \/ EncodeOther

SpecOrder == InitOrder /\ [][NextOrder]_vars

---------------------------------------------------------------------------
(* A caller who drives one Serializer, or one Deserializer and its reader,  *)
(* call by call, and may set the deliminator between any two calls.  keys   *)
(* is the log of the calls made and other the argument of the last call.    *)

MaxDocLen == 4       \* longest document handed to the reader
MaxCalls == 4        \* most calls made on one serializer or deserializer

\* ":", "/" and "::"
Deliminators == {<<58>>, <<47>>, <<58, 58>>}

\* Documents of a and :, and one that is not UTF-8
DelimDocuments == SeqsUpTo({97, 58}, MaxDocLen) \cup {<<254, 58, 97>>}

\* What the caller serializes, one call each
WriteVals ==
    {Val("u8", 1), Val("string", <<97>>), Val("string", <<>>), Unit,
     Val("tuple", <<Val("u8", 2), Val("string", <<97>>)>>),
     Val("unit_struct", <<>>), Val("option", <<>>), Val("seq", <<>>),
     Val("tuple", <<Unit, Val("bool", TRUE), Val("map", <<>>)>>)}

InitWriter ==
    /\ pc = "writer"
    /\ source = <<>>
    /\ de = NoDeserializer

InitReader ==
    /\ pc = "reader"
    /\ source \in DelimDocuments
    /\ de \in {Deserializer_from_slice(source),
               Deserializer_from_reader(source)}

InitDeliminator ==
    /\ InitWriter \/ InitReader
    /\ value = NoValue
    /\ shape = NoValue
    /\ ser = Serializer_new(<<>>)
    /\ serRes = NoResult
    /\ decRes = NoResult
    /\ endRes = NoResult
    /\ other = NoValue
    /\ keys = <<>>

\* serializer.set_deliminator(d)
SerSetDeliminator ==
    /\ pc = "writer"
    /\ Len(keys) < MaxCalls
    /\ \E d \in Deliminators :
        /\ ser' = ser_set_deliminator(ser, d)
        /\ other' = Val("str", d)
    /\ keys' = Append(keys, "set_deliminator")
    /\ UNCHANGED <<value, serRes, source, shape, de, decRes, endRes, pc>>

\* x.serialize(&mut serializer)
SerializeCall ==
    /\ pc = "writer"
    /\ Len(keys) < MaxCalls
    /\ \E x \in WriteVals :
        /\ other' = x
        /\ LET r == Serialize(ser, x) IN
            /\ ser' = r.s
            /\ serRes' = r.r
    /\ keys' = Append(keys, "serialize")
    /\ UNCHANGED <<value, source, shape, de, decRes, endRes, pc>>

\* deserializer.set_deliminator(d)
DeSetDeliminator ==
    /\ pc = "reader"
    /\ Len(keys) < MaxCalls
    /\ \E d \in Deliminators :
        /\ de' = de_set_deliminator(de, d)
        /\ other' = Val("str", d)
    /\ keys' = Append(keys, "set_deliminator")
    /\ UNCHANGED <<value, ser, serRes, source, shape, decRes, endRes, pc>>

\* reader.preload_components()
PreloadCall ==
    /\ pc = "reader"
    /\ Len(keys) < MaxCalls
    /\ LET r == preload_components(de) IN
        /\ de' = r.de
        /\ decRes' = r.r
    /\ keys' = Append(keys, "preload_components")
    /\ UNCHANGED <<value, ser, serRes, source, shape, endRes, other, pc>>

\* reader.next_component()
NextComponentCall ==
    /\ pc = "reader"
    /\ Len(keys) < MaxCalls
    /\ LET r == reader_next_component(de) IN
        /\ de' = r.de
        /\ decRes' = r.r
    /\ keys' = Append(keys, "next_component")
    /\ UNCHANGED <<value, ser, serRes, source, shape, endRes, other, pc>>

\* deserializer.end()
EndOfInputCall ==
    /\ pc = "reader"
    /\ Len(keys) < MaxCalls
    /\ LET r == end(de) IN
        /\ de' = r.de
        /\ endRes' = r.r
    /\ keys' = Append(keys, "end")
    /\ UNCHANGED <<value, ser, serRes, source, shape, decRes, other, pc>>

NextDeliminator ==
    \/ SerSetDeliminator
    \/ SerializeCall
    \/ DeSetDeliminator
    \/ PreloadCall
    \/ NextComponentCall
    \/ EndOfInputCall

SpecDeliminator == InitDeliminator /\ [][NextDeliminator]_vars

---------------------------------------------------------------------------
(* What the properties are stated with.                                     *)

\* a < b for byte strings and for texts: the order of slices and of str
SeqLess(a, b) ==
    \E i \in 1..(Len(a) + 1) :
        /\ i <= Len(b)
        /\ \A j \in 1..(i - 1) : a[j] = b[j]
        /\ (i = Len(a) + 1 \/ a[i] < b[i])

\* An f32 bit pattern without its sign bit: exponent and mantissa
Magnitude(bits) == IF bits >= 0 THEN bits ELSE bits - I32_MIN

\* Neither an infinity nor a NaN: the exponent is not all ones
IsFinite(bits) == Magnitude(bits) < 2139095040

\* a < b for the finite floats of these bit patterns
FloatLess(a, b) ==
    IF a < 0 /\ b >= 0 THEN Magnitude(a) # 0 \/ Magnitude(b) # 0
    ELSE IF a >= 0 /\ b >= 0 THEN Magnitude(a) < Magnitude(b)
    ELSE IF a < 0 /\ b < 0 THEN Magnitude(a) > Magnitude(b)
    ELSE FALSE

IntKinds == {"u8", "i8", "u16", "i16", "i32"}
NumericKinds == IntKinds \cup {"f32"}
CompositeKinds == {"tuple", "tuple_struct", "struct"}

\* a < b for two values of one shape: the derived order, field by field
RECURSIVE ValueLess(_, _)
ValueLess(a, b) ==
    IF a.k = "bool" THEN ~a.v /\ b.v
    ELSE IF a.k \in IntKinds \cup {"char"} THEN a.v < b.v
    ELSE IF a.k = "f32" THEN FloatLess(a.v, b.v)
    ELSE IF a.k \in {"str", "string", "bytes", "bytebuf"}
        THEN SeqLess(a.v, b.v)
    ELSE IF a.k = "enum" THEN a.v.idx < b.v.idx
    ELSE IF a.k = "newtype" THEN ValueLess(a.v, b.v)
    ELSE IF a.k \in CompositeKinds
        THEN \E i \in 1..Len(a.v) :
                /\ \A j \in 1..(i - 1) : a.v[j] = b.v[j]
                /\ ValueLess(a.v[i], b.v[i])
    ELSE FALSE

\* The scalar leaves of a value or of a shape that are not units, depth first
\* in declared order
RECURSIVE Leaves(_)
RECURSIVE LeavesOf(_)
Leaves(x) ==
    IF x.k \in {"unit", "unit_struct"} THEN <<>>
    ELSE IF x.k = "newtype" THEN Leaves(x.v)
    ELSE IF x.k \in CompositeKinds THEN LeavesOf(x.v)
    ELSE <<x>>

LeavesOf(fields) ==
    IF Len(fields) = 0 THEN <<>>
    ELSE Leaves(fields[1]) \o LeavesOf(Tail(fields))

LeafCount(sh) == Len(Leaves(sh))

\* The bytes to_vec gives for x
KeyOf(x) == to_vec(x).r.val.v

\* The queue a read would find: the queue, or what the first read will split
\* the input into
Remaining(d) ==
    IF d.components.some THEN d.components.q
    ELSE preload_components(d).de.components.q

Drop(q, n) == SubSeq(q, n + 1, Len(q))

\* The reader has or can build its queue, and nothing is in it
QueueEmpty(d) == preload_components(d).r.tag = "Ok" /\ Remaining(d) = <<>>

\* The deserializer from_slice or from_reader starts from
Fresh(d) ==
    IF d.kind = "slice" THEN Deserializer_from_slice(source)
    ELSE Deserializer_from_reader(source)

\* A step that reads one value of the shape it leaves in shape
ReadStep ==
    \/ pc = "open" /\ pc' = "decoded"
    \/ pc = "decoded" /\ pc' = "more"

Width(k) == IF k \in {"u8", "i8"} THEN 1 ELSE IF k \in {"u16", "i16"} THEN 2 ELSE 4

\* text is exactly n hex digits, 0-9, a-f or A-F
IsHexDigits(text, n) ==
    Len(text) = n /\ \A i \in 1..Len(text) : hex_val(text[i]) # -1

---------------------------------------------------------------------------
(* The properties.                                                          *)

\* C1: round trip.  For every value v of a supported shape,
\* from_slice(to_vec(v)) decoded with v's own shape succeeds and returns v.
\* The code does not have this property: the empty string encodes to no
\* bytes, and no bytes decode to no component.
C1_RoundTrip ==
    (pc = "done" /\ value # NoValue /\ de.kind = "slice")
        => decRes = Ok(value)

\* The empty String encodes to no bytes, which decode to Syntax
C1_Witness ==
    /\ pc = "done"
    /\ value = Val("string", <<>>)
    /\ serRes = Ok(Val("vec", <<>>))
    /\ source = <<>>
    /\ de.kind = "slice"
    /\ decRes = Syntax

\* C2: integer ordering.  For two integers a < b of one type, the key of a
\* is less than the key of b as a byte string.
C2_IntegerOrdering ==
    (pc = "compared" /\ value.k \in IntKinds /\ value.v < other.v)
        => SeqLess(keys[1], keys[2])

\* -1i8 and 0i8 encode to "7f" and "80"
C2_Witness ==
    /\ pc = "compared"
    /\ value = Val("i8", -1)
    /\ other = Val("i8", 0)
    /\ keys = <<<<55, 102>>, <<56, 48>>>>

\* C3: float ordering.  For two finite floats a < b, both negative, both
\* positive or on opposite sides of zero, the key of a is less than the key
\* of b as a byte string, the key being the hex of
\* v XOR ((v >> 31) | MIN) over the bit pattern v.
C3_FloatOrdering ==
    (/\ pc = "compared"
     /\ value.k = "f32"
     /\ IsFinite(value.v) /\ IsFinite(other.v)
     /\ FloatLess(value.v, other.v))
        => /\ SeqLess(keys[1], keys[2])
           /\ keys[1] = encode_to_slice(to_be_bytes(
                    XorI(value.v, OrI(ShrI(value.v, 31), I32_MIN, 4), 4), 4))

\* -123.456f32 and 0.123f32
C3_Witness ==
    /\ pc = "compared"
    /\ value = Val("f32", -1024005767)
    /\ other = Val("f32", 1039918957)
    /\ SeqLess(keys[1], keys[2])

\* C4: composite ordering.  For two values a < b of one tuple or struct
\* shape, in the field by field order, the key of a is less than the key of
\* b as a byte string.  The code does not have this property: the
\* deliminator that follows a string field is compared with the next
\* character of a longer string.
C4_CompositeOrdering ==
    (pc = "compared" /\ value.k \in CompositeKinds /\ ValueLess(value, other))
        => SeqLess(keys[1], keys[2])

\* ("a", 1u8) < ("a0", 1u8), and "a0:01" < "a:01"
C4_Witness ==
    /\ pc = "compared"
    /\ value = Val("tuple", <<Val("string", <<97>>), Val("u8", 1)>>)
    /\ other = Val("tuple", <<Val("string", <<97, 48>>), Val("u8", 1)>>)
    /\ ValueLess(value, other)
    /\ keys = <<<<97, 58, 48, 49>>, <<97, 48, 58, 48, 49>>>>
    /\ SeqLess(keys[2], keys[1])

\* C5: flattening.  The encoding of a value is the encodings of its leaves
\* that are not units, depth first in declared order, joined by the
\* deliminator; it is the encoding of the tuple of these leaves.
C5_Flattening ==
    (value # NoValue /\ serRes.tag = "Ok" /\ pc \in {"input", "first"})
        => /\ serRes.val.v =
                Join([i \in 1..LeafCount(value) |-> KeyOf(Leaves(value)[i])],
                     as_bytes(DEFAULT_DELIMINATOR))
           /\ serRes.val.v = KeyOf(Val("tuple", Leaves(value)))

\* ((1u8, "a"), ()) encodes to "01:a"
C5_Witness ==
    /\ pc = "input"
    /\ value = Val("tuple", <<Val("tuple", <<Val("u8", 1),
                                             Val("string", <<97>>)>>),
                              Unit>>)
    /\ source = <<48, 49, 58, 97>>

\* C6: a successful decode pops one component per leaf of the shape that is
\* not a unit, front to back, and a scalar read that finds a component pops
\* exactly that one, whether it then parses or not.
C6_ConsumesExactly ==
    [][/\ (pc = "open" /\ pc' = "decoded" /\ decRes'.tag = "Ok")
            => /\ Len(Remaining(de)) >= LeafCount(shape)
               /\ Remaining(de') = Drop(Remaining(de), LeafCount(shape))
       /\ (pc = "decoded" /\ pc' = "more" /\ shape' \in ScalarShapes
                /\ Remaining(de) # <<>>)
            => Remaining(de') = Tail(Remaining(de))]_vars

\* The second of two components has been read and did not parse
C6_Witness ==
    /\ pc = "more"
    /\ IsErr(decRes, "Data")
    /\ de.components = SomeComponents(<<>>)
    /\ Len(Remaining(Fresh(de))) = 2

\* C7 as stated: after the decode of the top-level value end() gives Syntax
\* if a component is left and Ok otherwise, and from_slice and from_reader
\* give Syntax whenever the input holds more components than the shape
\* takes.
C7_AsStated ==
    [][/\ (pc = "decoded" /\ pc' = "ended" /\ decRes.tag = "Ok")
            => endRes' = IF Remaining(de) # <<>> THEN Syntax ELSE OkUnit
       /\ (pc = "input" /\ pc' = "done"
                /\ Len(Remaining(Fresh(de'))) > LeafCount(shape))
            => decRes' = Syntax]_vars

\* C7: on input that is UTF-8, after a successful decode of the top-level
\* value end() gives Syntax if a component is left and Ok otherwise, and
\* from_slice and from_reader give Syntax whenever the decode of the value
\* succeeds and a component is left.
C7_TrailingInput ==
    [][/\ (pc = "decoded" /\ pc' = "ended" /\ decRes.tag = "Ok"
                /\ from_utf8(source).ok)
            => endRes' = IF Remaining(de) # <<>> THEN Syntax ELSE OkUnit
       /\ (pc = "input" /\ pc' = "done"
                /\ Deserialize(Fresh(de'), shape).r.tag = "Ok"
                /\ Remaining(Deserialize(Fresh(de'), shape).de) # <<>>)
            => decRes' = Syntax]_vars

\* "aa:h" read as a u8 leaves "h"
C7_Witness ==
    /\ pc = "ended"
    /\ shape = Val("u8", <<>>)
    /\ decRes = Ok(Val("u8", 170))
    /\ endRes = Syntax

\* C8 as stated: no bytes decode as a unit or a unit struct, and any other
\* input decoded as a shape of no fields gives Syntax.
C8_AsStated ==
    (pc = "done" /\ decRes # NoResult /\ LeafCount(shape) = 0)
        => /\ source = <<>> => decRes.tag = "Ok"
           /\ source # <<>> => decRes = Syntax

\* C8: no bytes decode as a unit or a unit struct, and any other input that
\* is UTF-8, decoded as a shape of no fields, gives Syntax.
C8_ZeroFieldShapes ==
    (pc = "done" /\ decRes # NoResult /\ LeafCount(shape) = 0)
        => /\ source = <<>> => decRes.tag = "Ok"
           /\ (source # <<>> /\ from_utf8(source).ok) => decRes = Syntax

\* "h" decoded as ()
C8_Witness ==
    /\ pc = "done"
    /\ shape = Unit
    /\ source = <<104>>
    /\ decRes = Syntax

\* C9: a scalar or variant read with nothing in the queue fails with Syntax.
C9_ArityUnderflow ==
    [][(ReadStep /\ shape' \in ScalarShapes /\ QueueEmpty(de))
            => decRes' = Syntax]_vars

\* The one component was read, the next read found none
C9_Witness ==
    /\ pc = "more"
    /\ decRes = Syntax
    /\ Len(Remaining(Fresh(de))) = 1

\* C10: with a component present, a bool from text other than true and
\* false, an integer or float of W bytes from text that is not exactly 2W
\* hex digits, and a char from text that is not exactly one character fail
\* with a Data error.
C10_ParseFailures ==
    [][(ReadStep /\ Remaining(de) # <<>>)
            => LET text == Head(Remaining(de)).s IN
               /\ (shape'.k = "bool" /\ text \notin {TEXT_TRUE, TEXT_FALSE})
                    => IsErr(decRes', "Data")
               /\ (shape'.k \in NumericKinds
                        /\ ~IsHexDigits(text, 2 * Width(shape'.k)))
                    => IsErr(decRes', "Data")
               /\ (shape'.k = "char" /\ Len(text) # 1)
                    => IsErr(decRes', "Data")]_vars

\* The empty component read as a char
C10_Witness ==
    /\ pc = "decoded"
    /\ shape = Val("char", <<>>)
    /\ source = <<COLON>>
    /\ IsErr(decRes, "Data")

\* text is the name of no variant of the enum
NoVariant(variants, text) ==
    \A i \in 1..Len(variants) : variants[i].name # text

HexKinds == NumericKinds \cup {"bytes", "bytebuf"}

\* text has a character that is none of 0-9 and a-f
HasNonLowerHex(text) ==
    \E i \in 1..Len(text) :
        ~(text[i] \in 48..57 \/ text[i] \in 97..102)

\* text has a character that is none of 0-9, a-f and A-F
HasNonHex(text) ==
    \E i \in 1..Len(text) :
        ~(text[i] \in 48..57 \/ text[i] \in 97..102 \/ text[i] \in 65..70)

\* C12 as stated: a numeric or byte-blob read of a component fails with a
\* Data error if the text has odd length or a character outside 0-9a-f,
\* A-F included.
C12_AsStated ==
    [][(ReadStep /\ Remaining(de) # <<>> /\ shape'.k \in HexKinds)
            => LET text == Head(Remaining(de)).s IN
               (Len(text) % 2 = 1 \/ HasNonLowerHex(text))
                    => IsErr(decRes', "Data")]_vars

\* C12: a numeric or byte-blob read of a component fails with a Data error
\* if the text has odd length or a character outside 0-9a-fA-F; exactly 2W
\* digits of either case decode as a W-byte value, and an even number of
\* them as an owned byte blob.
C12_HexDecoding ==
    [][(ReadStep /\ Remaining(de) # <<>> /\ shape'.k \in HexKinds)
            => LET text == Head(Remaining(de)).s IN
               /\ (Len(text) % 2 = 1 \/ HasNonHex(text))
                    => IsErr(decRes', "Data")
               /\ (shape'.k \in NumericKinds
                        /\ IsHexDigits(text, 2 * Width(shape'.k)))
                    => decRes'.tag = "Ok"
               /\ (shape'.k = "bytebuf" /\ Len(text) % 2 = 0
                        /\ ~HasNonHex(text))
                    => decRes'.tag = "Ok"]_vars

\* "AA" read as a u8 is 170, as "aa" is
C12_Witness ==
    /\ pc = "decoded"
    /\ shape = Val("u8", <<>>)
    /\ source = <<65, 65>>
    /\ decRes = Ok(Val("u8", 170))

\* x is, or holds at some depth, an Option, a sequence, a map or an enum
\* variant with a payload
RECURSIVE HoldsUnsupported(_)
HoldsUnsupported(x) ==
    IF x.k \in {"option", "seq", "map"} THEN TRUE
    ELSE IF x.k = "enum" THEN x.v.ty[x.v.idx].vk # "unit"
    ELSE IF x.k = "newtype" THEN HoldsUnsupported(x.v)
    ELSE IF x.k \in CompositeKinds
        THEN \E i \in 1..Len(x.v) : HoldsUnsupported(x.v[i])
    ELSE FALSE

\* C13: to_vec of a value that is, or holds at any depth, an Option, a
\* sequence, a map or a newtype, tuple or struct variant fails with
\* UnsupportedType; no other value fails.
C13_EncoderRejection ==
    (value # NoValue /\ serRes # NoResult)
        => (IF HoldsUnsupported(value)
                THEN serRes = UnsupportedType
                ELSE serRes.tag = "Ok")

\* ("a", (2u8, Vec::<u8>::new()), 1u8): the sequence is two levels down and
\* follows fields that were written
C13_Witness ==
    /\ pc = "done"
    /\ value = Val("tuple", <<Val("string", <<97>>),
                              Val("tuple", <<Val("u8", 2), Val("seq", <<>>)>>),
                              Val("u8", 1)>>)
    /\ ser.output = <<97, 58, 48, 50>>
    /\ serRes = UnsupportedType

C15_RejectedUnread ==
    [][/\ (ReadStep /\ shape' \in UnsupportedShapes)
            => (decRes' = UnsupportedType /\ de' = de)
       /\ (pc = "input" /\ pc' = "done" /\ shape \in UnsupportedShapes)
            => /\ decRes' = UnsupportedType
               /\ de' = Fresh(de')
               /\ ~de'.components.some
               /\ de'.input = source]_vars

\* A map asked of a deserializer that has read one of its two components
C15_Witness ==
    /\ pc = "more"
    /\ shape = Val("map", <<>>)
    /\ decRes = UnsupportedType
    /\ de.components.some
    /\ Len(de.components.q) = 1
    /\ Len(Remaining(Fresh(de))) = 2

\* The value of a hex digit of either case
DigitValue(c) ==
    IF c \in 48..57 THEN c - 48
    ELSE IF c \in 97..102 THEN c - 87
    ELSE c - 55

\* The bytes an even number of hex digits stand for
BytesOfHex(text) ==
    [i \in 1..(Len(text) \div 2) |->
        16 * DigitValue(text[2 * i - 1]) + DigitValue(text[2 * i])]

\* C17: for the slice and the stream reader alike, a read of a borrowed
\* byte view (&Bytes) fails for every input, through the deserializer and
\* through from_slice; a read of an owned buffer (ByteBuf) from a component
\* of valid hex gives the bytes the hex stands for.
C17_BytesNeverBorrowed ==
    [][/\ (ReadStep /\ shape'.k = "bytes") => decRes'.tag = "Err"
       /\ (pc = "input" /\ pc' = "done" /\ shape.k = "bytes")
            => decRes'.tag = "Err"
       /\ (ReadStep /\ shape'.k = "bytebuf" /\ Remaining(de) # <<>>)
            => LET text == Head(Remaining(de)).s IN
               (Len(text) % 2 = 0 /\ ~HasNonHex(text))
                    => decRes' = Ok(Val("bytebuf", BytesOfHex(text)))]_vars

\* from_slice::<&Bytes>(b"cafe"): the hex was decoded into the buffer and
\* the visitor refused it
C17_Witness ==
    /\ pc = "done"
    /\ shape = Val("bytes", <<>>)
    /\ source = <<99, 97, 102, 101>>
    /\ de.kind = "slice"
    /\ de.buffer = <<202, 254>>
    /\ IsErr(decRes, "Other")

\* C18: the key of an unsigned, signed or float value of N bytes is exactly
\* 2N characters, each of 0-9 and a-f, whatever the value; the key of an
\* unsigned value is the value in base 16, zeros in front.
C18_FixedWidth ==
    (value # NoValue /\ value.k \in NumericKinds /\ serRes # NoResult)
        => /\ serRes.tag = "Ok"
           /\ LET key == ser.output IN
              /\ Len(key) = 2 * Width(value.k)
              /\ ~HasNonLowerHex(key)
              /\ value.k \in {"u8", "u16"}
                    => from_be_bytes_u(BytesOfHex(key)) = value.v

\* to_vec(&2u16) is "0002": three zeros in front
C18_Witness ==
    /\ value = Val("u16", 2)
    /\ serRes = Ok(Val("vec", <<48, 48, 48, 50>>))

\* How many times d is found in s, scanning from the left and going on
\* after each find
RECURSIVE CountOccurrences(_, _)
CountOccurrences(s, d) ==
    IF FindFirst(s, d) = 0 THEN 0
    ELSE 1 + CountOccurrences(SubSeq(s, FindFirst(s, d) + Len(d), Len(s)), d)

\* The texts of the components of a queue
TextsOf(q) == [i \in 1..Len(q) |-> q[i].s]

\* The call of a step
Called(name) == keys' = Append(keys, name)

\* A preload_components or next_component that builds the queue
Materializes ==
    /\ Called("preload_components") \/ Called("next_component")
    /\ ~de.components.some
    /\ de'.components.some

\* The queue as the step built it: what next_component handed out, then what
\* is left
Materialized ==
    IF Called("next_component") /\ decRes'.val.k = "some"
    THEN <<decRes'.val.v>> \o de'.components.q
    ELSE de'.components.q

Reported == IF pc = "writer" THEN ser.deliminator ELSE de.deliminator

\* A component has been written, or the last read handed one out
ComponentSeen ==
    IF pc = "writer" THEN ser.first_part_written
    ELSE decRes.tag = "Ok" /\ decRes.val.k = "some"

\* C19 as stated: set_deliminator after a component was written or read
\* leaves the deliminator that deliminator() reports as it was.
C19_AsStated ==
    [][(Called("set_deliminator") /\ ComponentSeen)
            => Reported' = Reported]_vars

\* C19: set_deliminator is taken at any time, before and after components
\* were written or read: deliminator() reports the new one and nothing else
\* of the serializer or reader changes.  The serializer writes the
\* deliminator it holds at the time before each later component.  A reader
\* whose queue is built hands out the components of that queue whatever
\* deliminator is set afterwards.
C19_SetAtAnyTime ==
    [][/\ Called("set_deliminator")
            => /\ Reported' = other'.v
               /\ ser' = [ser EXCEPT !.deliminator = ser'.deliminator]
               /\ de' = [de EXCEPT !.deliminator = de'.deliminator]
       /\ (Called("serialize") /\ ser.first_part_written
                /\ other'.k \in {"u8", "string"})
            => ser'.output
                    = ser.output \o as_bytes(ser.deliminator) \o KeyOf(other')
       /\ (Called("next_component") /\ de.components.some
                /\ de.components.q # <<>>)
            => /\ decRes' = Ok(Val("some", Head(de.components.q)))
               /\ de'.components.q = Tail(de.components.q)]_vars

\* 1u8 written, the deliminator set to "/", "a" written: the output is
\* "01/a"
C19_Witness ==
    /\ pc = "writer"
    /\ keys = <<"serialize", "set_deliminator", "serialize">>
    /\ ser.deliminator = <<47>>
    /\ ser.output = <<48, 49, 47, 97>>

\* C20: a preload_components that succeeds on a reader without a queue
\* builds the queue, and the stream reader has then drained its source.
\* Once the queue is built, every call leaves the source as it is and the
\* queue as it is or without its front component: preload_components and
\* set_deliminator change nothing of the queue, next_component and end pop
\* the front component when there is one and change nothing when there is
\* none.
C20_MaterializeOnce ==
    [][/\ (Called("preload_components") /\ ~de.components.some
                /\ decRes'.tag = "Ok")
            => /\ de'.components.some
               /\ de.kind = "io" => de'.input = <<>>
               /\ de.kind = "slice" => de'.input = de.input
       /\ (pc = "reader" /\ de.components.some)
            => /\ de'.components.some
               /\ de'.input = de.input
               /\ Called("preload_components")
                    => (de' = de /\ decRes' = OkUnit)
               /\ Called("set_deliminator")
                    => de'.components = de.components
               /\ (Called("next_component") \/ Called("end"))
                    => de'.components.q
                            = IF de.components.q = <<>> THEN <<>>
                              ELSE Tail(de.components.q)]_vars

\* "a:a" from a stream: the queue was built, one component was taken, and
\* a second preload_components left the other in the queue
C20_Witness ==
    /\ pc = "reader"
    /\ keys = <<"preload_components", "next_component", "preload_components">>
    /\ source = <<97, 58, 97>>
    /\ de.kind = "io"
    /\ de.input = <<>>
    /\ TextsOf(de.components.q) = <<<<97>>>>
    /\ decRes = OkUnit

\* The type's minimum
MinOf(k) == IF k = "i8" THEN I8_MIN ELSE IF k = "i16" THEN I16_MIN ELSE I32_MIN

\* The bit pattern a numeric key stands for, read as a value of kind k
\* before any transform is undone
PatternOf(k, key) ==
    IF k \in {"u8", "u16"} THEN from_be_bytes_u(BytesOfHex(key))
    ELSE from_be_bytes_i(BytesOfHex(key))

\* C21 as stated: the float transform of the encoder, applied to its own
\* result, gives the pattern back.
C21_AsStated ==
    (value # NoValue /\ value.k = "f32" /\ serRes.tag = "Ok")
        => f32_transform(f32_transform(value.v)) = value.v

\* C21: every numeric value is encoded, whatever its bit pattern.  The key
\* of an unsigned value holds the value itself.  The key of a signed value
\* holds v XOR the type's minimum, and that XOR applied again gives v back.
\* The key of a float holds v XOR t with t = (v >> 31) | MIN; that transform
\* is not its own inverse (applied again it never gives v back), and the
\* decoder undoes it with another one, t = ((e ^ MIN) >> 31) | MIN.
C21_Transforms ==
    (value # NoValue /\ value.k \in NumericKinds /\ serRes # NoResult)
        => /\ serRes.tag = "Ok"
           /\ LET e == PatternOf(value.k, ser.output)
                  w == Width(value.k)
              IN  /\ value.k \in {"u8", "u16"} => e = value.v
                  /\ value.k \in {"i8", "i16", "i32"}
                        => /\ e = XorI(value.v, MinOf(value.k), w)
                           /\ XorI(e, MinOf(value.k), w) = value.v
                  /\ value.k = "f32"
                        => /\ e = f32_transform(value.v)
                           /\ f32_untransform(e) = value.v
                           /\ f32_transform(e) # value.v

\* to_vec(&1.0f32) is "bf800000": 3f800000 with the sign bit flipped
C21_Witness ==
    /\ value = Val("f32", 1065353216)
    /\ serRes = Ok(Val("vec", <<98, 102, 56, 48, 48, 48, 48, 48>>))

\* C22: the key of a numeric value, decoded as the kind of the value by
\* from_slice, from_reader or a deserializer of either reader, gives the
\* value back bit for bit: every u8 and i8, the boundaries of the wider
\* integers, and for floats both zeros, subnormals, infinities and NaN
\* patterns of both signs.
C22_NumericRoundTrip ==
    (value # NoValue /\ value.k \in NumericKinds /\ pc \in {"done", "decoded"}
            /\ decRes # NoResult)
        => decRes = Ok(value)

\* The NaN 7fc00000 came back from its key "ffc00000"
C22_Witness ==
    /\ pc = "done"
    /\ value = Val("f32", 2143289344)
    /\ source = <<102, 102, 99, 48, 48, 48, 48, 48>>
    /\ decRes = Ok(Val("f32", 2143289344))

\* The scalar leaves of x in depth-first order up to the first Option,
\* sequence, map or variant with a payload, and whether there is one
RECURSIVE LeavesBeforeFailure(_)
RECURSIVE LeavesBeforeFailureOf(_)
LeavesBeforeFailure(x) ==
    IF x.k \in {"option", "seq", "map"}
        THEN [leaves |-> <<>>, failed |-> TRUE]
    ELSE IF x.k = "enum" /\ x.v.ty[x.v.idx].vk # "unit"
        THEN [leaves |-> <<>>, failed |-> TRUE]
    ELSE IF x.k \in {"unit", "unit_struct"}
        THEN [leaves |-> <<>>, failed |-> FALSE]
    ELSE IF x.k = "newtype" THEN LeavesBeforeFailure(x.v)
    ELSE IF x.k \in CompositeKinds THEN LeavesBeforeFailureOf(x.v)
    ELSE [leaves |-> <<x>>, failed |-> FALSE]

LeavesBeforeFailureOf(fields) ==
    IF Len(fields) = 0 THEN [leaves |-> <<>>, failed |-> FALSE]
    ELSE IF LeavesBeforeFailure(fields[1]).failed
        THEN LeavesBeforeFailure(fields[1])
    ELSE [leaves |-> LeavesBeforeFailure(fields[1]).leaves
                        \o LeavesBeforeFailureOf(Tail(fields)).leaves,
          failed |-> LeavesBeforeFailureOf(Tail(fields)).failed]

\* The keys of the leaves, one by one
KeysOf(leaves) == [i \in 1..Len(leaves) |-> KeyOf(leaves[i])]

\* C23: after to_writer the sink holds the keys of the scalar leaves that
\* come before the first unsupported field in depth-first order, joined by
\* the deliminator, and nothing else: no deliminator for the failing field,
\* nothing of a later field.  to_writer returns UnsupportedType when there
\* is such a field and Ok when there is none, the sink then holding the
\* whole encoding.
C23_NotTransactional ==
    pc = "written"
        => /\ ser.output
                = Join(KeysOf(LeavesBeforeFailure(value).leaves), <<COLON>>)
           /\ serRes = IF LeavesBeforeFailure(value).failed
                            THEN UnsupportedType
                       ELSE OkUnit

\* to_writer of ("a", (2u8, Vec::<u8>::new()), 1u8): the sink holds "a:02",
\* the sequence failed, the 1u8 after it was not written
C23_Witness ==
    /\ pc = "written"
    /\ value = Val("tuple", <<Val("string", <<97>>),
                              Val("tuple", <<Val("u8", 2), Val("seq", <<>>)>>),
                              Val("u8", 1)>>)
    /\ ser.output = <<97, 58, 48, 50>>
    /\ serRes = UnsupportedType

\* What the reader of d makes its components
OwnOf(d) == IF d.kind = "slice" THEN "Borrowed" ELSE "Owned"

\* C24: every component in the queue of a SliceReader is Borrowed and every
\* one in the queue of an IoReader is Owned.  A read of a &str, whose
\* visitor takes only a borrowed str, gives the text of the component from
\* a SliceReader and fails on an IoReader, where the component arrives as
\* an owned String; a read of a String gives the text from both.
C24_BorrowedOrOwned ==
    [][/\ \A i \in 1..Len(de'.components.q) :
            de'.components.q[i].own = OwnOf(de')
       /\ (ReadStep /\ Remaining(de) # <<>> /\ shape'.k = "str")
            => /\ Head(Remaining(de)).own = OwnOf(de)
               /\ de.kind = "slice"
                    => decRes' = Ok(Val("str", Head(Remaining(de)).s))
               /\ de.kind = "io" => IsErr(decRes', "Other")
       /\ (ReadStep /\ Remaining(de) # <<>> /\ shape'.k = "string")
            => decRes' = Ok(Val("string", Head(Remaining(de)).s))]_vars

\* "h:aa" from a stream read as a &str: the component was popped, the
\* visitor refused the owned String, the other component is Owned
C24_Witness ==
    /\ pc = "decoded"
    /\ de.kind = "io"
    /\ shape = Val("str", <<>>)
    /\ source = <<104, 58, 97, 97>>
    /\ IsErr(decRes, "Other")
    /\ de.components.q = <<Component("Owned", <<97, 97>>)>>

\* A call of Deserializer::end
EndStep == pc \in {"decoded", "ended"} /\ pc' \in {"ended", "ended2"}

\* C25: an end() that returns Syntax has popped exactly the front component
\* of the queue, so after a Syntax that emptied the queue the next end()
\* returns Ok; an end() that returns Ok found the queue empty and leaves it
\* empty, and on a queue that was already built it changes nothing.
C25_EndPops ==
    [][EndStep
            => /\ endRes' = Syntax
                    => /\ Remaining(de) # <<>>
                       /\ de'.components.some
                       /\ de'.components.q = Tail(Remaining(de))
               /\ endRes' = OkUnit
                    => /\ Remaining(de) = <<>>
                       /\ de'.components = SomeComponents(<<>>)
                       /\ de.components.some => de' = de
               /\ (pc = "ended" /\ endRes = Syntax /\ de.components.q = <<>>)
                    => endRes' = OkUnit]_vars

\* One component more than the value took: the first end() returned Syntax
\* and popped it, the second returned Ok
C25_Witness ==
    /\ pc = "ended2"
    /\ decRes.tag = "Ok"
    /\ LeafCount(shape) = 1
    /\ Len(Remaining(Fresh(de))) = 2
    /\ endRes = OkUnit
    /\ de.components = SomeComponents(<<>>)

\* C26: first_part_written is false on a new Serializer and, once true,
\* stays true.  A serialize call sets it exactly when it has written a
\* scalar component, the empty string included; a unit, a unit struct and a
\* value that is refused before any component leave it as it is, and so
\* does set_deliminator.  The call writes the deliminator between its
\* components, and before the first of them exactly when the flag was
\* already true: a Serializer used for a second value puts a deliminator in
\* front of it.
C26_FirstPartFlag ==
    [][/\ ser.first_part_written => ser'.first_part_written
       /\ Called("set_deliminator")
            => ser'.first_part_written = ser.first_part_written
       /\ (pc = "writer" /\ Called("serialize"))
            => LET leaves == LeavesBeforeFailure(other').leaves
                   deliminator == as_bytes(ser.deliminator)
               IN  /\ ser'.first_part_written
                        = (ser.first_part_written \/ leaves # <<>>)
                   /\ ser'.output
                        = ser.output
                            \o (IF ser.first_part_written /\ leaves # <<>>
                                    THEN deliminator ELSE <<>>)
                            \o Join(KeysOf(leaves), deliminator)
                   /\ keys = <<>> => ~ser.first_part_written]_vars

\* "" then 1u8 through one Serializer: the empty string wrote nothing and
\* set the flag, so the output is ":01"
C26_Witness ==
    /\ pc = "writer"
    /\ keys = <<"serialize", "serialize">>
    /\ other = Val("u8", 1)
    /\ ser.first_part_written
    /\ ser.output = <<58, 48, 49>>

=============================================================================
